---- MODULE Spec2Model ----
(***************************************************************************)
(* COT positioning index and currency-pair scoring of the dashboard pages  *)
(* pages/FXchart.py and pages/COTinfo.py.                                  *)
(*                                                                         *)
(* Numbers.  pandas computes in float64.  A float is modelled as a record  *)
(* [k, n, d]: k = "num" with the exact reduced fraction n/d (d > 0),       *)
(* k = "nan", k = "inf" or k = "ninf".  Rounding is not modelled: the      *)
(* arithmetic is exact.                                                    *)
(***************************************************************************)
EXTENDS Integers, Sequences, FiniteSets, TLC

VARIABLES
    pc,          \* position of the modelled call or page run
    series,      \* get_cot_index: the input column
    series2,     \* get_cot_index: a second input column (longer history)
    lookback,    \* get_cot_index: the window argument
    index,       \* get_cot_index(series, lookback)
    index2,      \* get_cot_index(series2, lookback)
    ccy1,        \* get_pair_info: first currency code
    ccy2,        \* get_pair_info: second currency code
    pair_info,   \* what get_pair_info returned, <<>> before it returns
    week,        \* cot_all: the number of weekly reports published so far
    newest_first,\* cot_all: whether the fetched frame lists new reports first
    raw,         \* cot_all: the fetched frame, a sequence of rows
    all_cot_data,\* get_prepared_cot_data(): the prepared frame
    snapshot_df, \* analyze_currency_pair_snapshot(...)
    history_df,  \* analyze_score_history(...)
    today,       \* COTinfo: pd.Timestamp.now() of the page run
    all_data,    \* COTinfo: get_prepared_cot_data(), the prepared frame
    divergence_top, \* COTinfo: scan_divergence(all_data)
    flow_top,    \* COTinfo: scan_flow(all_data)
    reversal_top,\* COTinfo: scan_reversal(all_data)
    price_history,    \* get_daily_price_data(...): the daily closes fetched
    price_history_df, \* create_cot_price_history_table(...)
    raised       \* the exception that left the modelled call, or "none"

cotVars == <<week, newest_first, raw, all_cot_data, snapshot_df, history_df>>
indexVars == <<series, series2, lookback, index, index2>>
pairVars == <<ccy1, ccy2, pair_info>>
scanVars == <<today, all_data, divergence_top, flow_top, reversal_top>>
priceVars == <<price_history, price_history_df>>
vars == <<pc, indexVars, pairVars, cotVars, scanVars, priceVars, raised>>

----------------------------------------------------------------------------
(* Bounds of the model *)

MaxLen == 4          \* longest input column of get_cot_index
MaxHist == 1         \* extra records put before a column
MaxLookback == 3     \* largest window argument tried
MaxWeeks == 3        \* weekly reports in a fetched frame
MaxExtra == 1        \* rows of a second exchange in a fetched frame
LookbackBound == 2   \* the pages' window, scaled down from 26 weeks
MaxCount == 3        \* largest position count of a one-row frame
MaxHistoryWeeks == 5 \* weekly reports in a frame the score history is run on
MaxScanWeeks == 3    \* weekly reports in a frame the scanners are run on
MaxScenarioWeeks == 3 \* weekly reports of the three-asset scenario
MaxNet == 5          \* largest position count of the three-asset scenario
MaxTableWeeks == 4   \* weekly reports in a frame the price table is built on
MaxSnapshotWeeks == 4 \* weekly reports in a frame the snapshot is compared on

----------------------------------------------------------------------------
(* float64 values and arithmetic *)

Abs(x) == IF x < 0 THEN -x ELSE x

RECURSIVE GCD(_, _)
GCD(a, b) == IF b = 0 THEN a ELSE GCD(b, a % b)

NaN == [k |-> "nan", n |-> 0, d |-> 1]
Inf == [k |-> "inf", n |-> 0, d |-> 1]
NInf == [k |-> "ninf", n |-> 0, d |-> 1]

\* the float n/d, d # 0, as a reduced fraction with a positive denominator
Frac(n, d) ==
    LET s == IF d < 0 THEN -1 ELSE 1
        g == GCD(Abs(n), Abs(d))
    IN  [k |-> "num", n |-> (s * n) \div g, d |-> (s * d) \div g]

Num(i) == [k |-> "num", n |-> i, d |-> 1]

IsNaN(a) == a.k = "nan"
IsNum(a) == a.k = "num"

\* a < b on floats; every comparison with NaN is false
FLess(a, b) ==
    IF IsNaN(a) \/ IsNaN(b) THEN FALSE
    ELSE IF a.k = "ninf" THEN b.k # "ninf"
    ELSE IF b.k = "inf" THEN a.k # "inf"
    ELSE IF a.k = "inf" \/ b.k = "ninf" THEN FALSE
    ELSE a.n * b.d < b.n * a.d

FNeg(a) ==
    IF IsNaN(a) THEN NaN
    ELSE IF a.k = "inf" THEN NInf
    ELSE IF a.k = "ninf" THEN Inf
    ELSE Frac(-a.n, a.d)

\* a - b
FSub(a, b) ==
    IF IsNaN(a) \/ IsNaN(b) THEN NaN
    ELSE IF IsNum(a) /\ IsNum(b) THEN Frac(a.n * b.d - b.n * a.d, a.d * b.d)
    ELSE IF a.k = b.k THEN NaN
    ELSE IF IsNum(b) THEN a
    ELSE FNeg(b)

\* a * b
FMul(a, b) ==
    IF IsNaN(a) \/ IsNaN(b) THEN NaN
    ELSE IF IsNum(a) /\ IsNum(b) THEN Frac(a.n * b.n, a.d * b.d)
    ELSE LET sa == IF a.k = "inf" \/ (IsNum(a) /\ a.n > 0) THEN 1
                   ELSE IF IsNum(a) /\ a.n = 0 THEN 0 ELSE -1
             sb == IF b.k = "inf" \/ (IsNum(b) /\ b.n > 0) THEN 1
                   ELSE IF IsNum(b) /\ b.n = 0 THEN 0 ELSE -1
         IN  IF sa * sb = 0 THEN NaN ELSE IF sa * sb > 0 THEN Inf ELSE NInf

\* a division that answers 0 for 0/0
FDiv_zero_default(a, b) ==
    IF IsNaN(a) \/ IsNaN(b) THEN NaN
    ELSE IF IsNum(a) /\ IsNum(b) THEN
        IF b.n = 0 THEN Num(0) ELSE Frac(a.n * b.d, a.d * b.n)
    ELSE NaN

\* a / b, the numpy division: 0/0 is NaN and x/0 is +-inf, nothing is raised
FDiv(a, b) ==
    IF IsNaN(a) \/ IsNaN(b) THEN NaN
    ELSE IF IsNum(a) /\ IsNum(b) THEN
        IF b.n = 0 THEN (IF a.n = 0 THEN NaN ELSE IF a.n > 0 THEN Inf ELSE NInf)
        ELSE Frac(a.n * b.d, a.d * b.n)
    ELSE IF ~IsNum(a) /\ ~IsNum(b) THEN NaN
    ELSE IF IsNum(a) THEN Num(0)
    ELSE IF (a.k = "inf") = (b.n >= 0) THEN Inf ELSE NInf

----------------------------------------------------------------------------
(* pandas Series.rolling(window).min() / .max(), min_periods = window *)

\* a window that ends one position early
Window_shifted(window, i) == {j \in 1..(i - 1) : j >= i - window}

\* a window that grows with the history instead of sliding
Window_expanding(window, i) == 1..i

\* the positions (1-based) of the window that ends at position i
Window(window, i) == {j \in 1..i : j > i - window}

\* the observations of the window: its values that are not NaN
Observations(s, window, i) == {j \in Window(window, i) : ~IsNaN(s[j])}

\* the first value of the window in place of its minimum
rolling_min_first(s, window) ==
    [i \in 1..Len(s) |->
        LET obs == Observations(s, window, i)
        IN  IF Cardinality(obs) < window THEN NaN
            ELSE s[CHOOSE j \in obs : \A m \in obs : j <= m]]

\* Series.rolling(window).min()
rolling_min(s, window) ==
    [i \in 1..Len(s) |->
        LET obs == Observations(s, window, i)
        IN  IF Cardinality(obs) < window THEN NaN
            ELSE s[CHOOSE j \in obs : \A m \in obs : ~FLess(s[m], s[j])]]

rolling_max(s, window) ==
    [i \in 1..Len(s) |->
        LET obs == Observations(s, window, i)
        IN  IF Cardinality(obs) < window THEN NaN
            ELSE s[CHOOSE j \in obs : \A m \in obs : ~FLess(s[j], s[m])]]

\* the index with the range replaced by the maximum
get_cot_index_div_max(s, window) ==
    LET lo == rolling_min(s, window)
        hi == rolling_max(s, window)
    IN  [i \in 1..Len(s) |->
            FMul(FDiv(FSub(s[i], lo[i]), hi[i]), Num(100))]

\* (series - rolling_min) / (rolling_max - rolling_min) * 100, element-wise
get_cot_index(s, window) ==
    LET lo == rolling_min(s, window)
        hi == rolling_max(s, window)
    IN  [i \in 1..Len(s) |->
            FMul(FDiv(FSub(s[i], lo[i]), FSub(hi[i], lo[i])), Num(100))]

----------------------------------------------------------------------------
(* Pair normalisation, pages/FXchart.py *)

CURRENCY_HIERARCHY == <<"EUR", "GBP", "AUD", "USD", "CAD", "CHF", "JPY">>

Range(list) == {list[j] : j \in 1..Len(list)}

\* a lookup that answers -1 for an absent value, as str.find does
ListIndex_find(list, x) ==
    IF x \in Range(list)
    THEN [raised |-> "none",
          value |-> (CHOOSE j \in 1..Len(list) : list[j] = x) - 1]
    ELSE [raised |-> "none", value |-> -1]

\* list.index(x): the 0-based position of the first x; ValueError when absent
ListIndex(list, x) ==
    IF x \in Range(list)
    THEN [raised |-> "none",
          value |-> (CHOOSE j \in 1..Len(list) :
                        list[j] = x /\ \A m \in 1..(j - 1) : list[m] # x) - 1]
    ELSE [raised |-> "ValueError", value |-> -1]

\* no normalisation: the first argument is the base
get_pair_info_as_given(c1, c2) ==
    [raised |-> "none", ret |-> <<c1, c2, c1 \o c2 \o "=X">>]

\* the call's outcome: the returned tuple, or the exception it raised
get_pair_info(c1, c2) ==
    LET r1 == ListIndex(CURRENCY_HIERARCHY, c1)
        r2 == ListIndex(CURRENCY_HIERARCHY, c2)
    IN  IF r1.raised # "none" THEN [raised |-> r1.raised, ret |-> <<>>]
        ELSE IF r2.raised # "none" THEN [raised |-> r2.raised, ret |-> <<>>]
        ELSE LET standard_base == IF r1.value < r2.value THEN c1 ELSE c2
                 standard_quote == IF r1.value < r2.value THEN c2 ELSE c1
                 yfinance_ticker == IF standard_base = "USD"
                                    THEN standard_quote \o "=X"
                                    ELSE standard_base \o standard_quote \o "=X"
             IN  [raised |-> "none",
                  ret |-> <<standard_base, standard_quote, yfinance_ticker>>]

----------------------------------------------------------------------------
(* COT data preparation, pages/FXchart.py *)

\* 26 in the source; the model runs the same code with a shorter window
LOOKBACK_WEEKS == LookbackBound

\* The asset names are Japanese strings in the source; the model writes
\* them in English.
COT_ASSET_NAMES ==
    [c \in Range(CURRENCY_HIERARCHY) |->
        CASE c = "EUR" -> "Euro"
          [] c = "USD" -> "USDollar"
          [] c = "JPY" -> "JapaneseYen"
          [] c = "GBP" -> "BritishPound"
          [] c = "AUD" -> "AustralianDollar"
          [] c = "CAD" -> "CanadianDollar"
          [] c = "CHF" -> "SwissFranc"]

\* name_map.get(head, None); "None" stands for the missing value
name_map(head) ==
    CASE head = "BRITISH POUND STERLING" -> "BritishPound"
      [] head = "JAPANESE YEN" -> "JapaneseYen"
      [] head = "CANADIAN DOLLAR" -> "CanadianDollar"
      [] head = "SWISS FRANC" -> "SwissFranc"
      [] head = "EURO FX" -> "Euro"
      [] head = "AUSTRALIAN DOLLAR" -> "AustralianDollar"
      [] head = "U.S. DOLLAR INDEX" -> "USDollar"
      [] OTHER -> "None"

\* the order of the (Japanese) names under string comparison, by code point
NameSortOrder ==
    <<"CanadianDollar", "SwissFranc", "Euro", "JapaneseYen", "USDollar",
      "BritishPound", "AustralianDollar">>

NameRank(name) == CHOOSE j \in 1..Len(NameSortOrder) : NameSortOrder[j] = name

\* a row sorts at or before another by ['Name', 'Date']
RowLE(a, b) ==
    \/ NameRank(a.Name) < NameRank(b.Name)
    \/ a.Name = b.Name /\ a.Date <= b.Date

\* DataFrame.sort_values(by=['Name', 'Date']): a stable sort
RECURSIVE sort_values(_)
sort_values(rows) ==
    IF rows = <<>> THEN <<>>
    ELSE LET sorted == sort_values(SubSeq(rows, 1, Len(rows) - 1))
             r == rows[Len(rows)]
             k == Cardinality({j \in 1..Len(sorted) : RowLE(sorted[j], r)})
         IN  SubSeq(sorted, 1, k) \o <<r>> \o SubSeq(sorted, k + 1, Len(sorted))

\* the row with its Name mapped from the text before ' - ' of the market name
\* and the two net columns added
PreparedRow(r) ==
    [Name |-> name_map(r.Market.head),
     Date |-> r.Date,
     NonComm_Long |-> r.NonComm_Long,
     NonComm_Short |-> r.NonComm_Short,
     Comm_Long |-> r.Comm_Long,
     Comm_Short |-> r.Comm_Short,
     NonComm_Net |-> r.NonComm_Long - r.NonComm_Short,
     Comm_Net |-> r.Comm_Long - r.Comm_Short]

\* the call's outcome on the fetched frame: the returned frame, or the
\* exception raised
get_prepared_cot_data(frame) ==
    LET named == [i \in 1..Len(frame) |-> PreparedRow(frame[i])]
        kept == SelectSeq(named, LAMBDA r : r.Name # "None")
    IN  [raised |-> "none", ret |-> sort_values(kept)]

----------------------------------------------------------------------------
(* Pair analysis, pages/FXchart.py *)

\* all_cot_data[all_cot_data['Name'] == asset_name]
RowsOf(data, asset_name) == SelectSeq(data, LAMBDA r : r.Name = asset_name)

\* drop_duplicates(subset='Date', keep='last')
drop_duplicates(rows) ==
    LET keep == {i \in 1..Len(rows) :
                    \A j \in (i + 1)..Len(rows) : rows[j].Date # rows[i].Date}
        F[i \in 0..Len(rows)] ==
            IF i = 0 THEN <<>>
            ELSE IF i \in keep THEN Append(F[i - 1], rows[i]) ELSE F[i - 1]
    IN  F[Len(rows)]

\* a column of integers as a float column
Column(rows, field) == [i \in 1..Len(rows) |-> Num(rows[i][field])]

\* the first value in place of the last
ILocLast_first(s) == s[1]

\* Series.iloc[-1]
ILocLast(s) == s[Len(s)]

None == [is_none |-> TRUE, rows |-> <<>>]
Table(rows) == [is_none |-> FALSE, rows |-> rows]

\* one row of the snapshot's results dictionary
SnapshotEntry(asset_df) ==
    LET latest == ILocLast(asset_df)
    IN  [SpecNet |-> latest.NonComm_Net,
         SpecIdx |-> ILocLast(get_cot_index(Column(asset_df, "NonComm_Net"), LOOKBACK_WEEKS)),
         CommNet |-> latest.Comm_Net,
         CommIdx |-> ILocLast(get_cot_index(Column(asset_df, "Comm_Net"), LOOKBACK_WEEKS))]

\* the sign of the score reversed, as for a US dollar special case
pair_score_reversed(base_score, quote_score) == FSub(quote_score, base_score)

\* base_score - quote_score
pair_score(base_score, quote_score) == FSub(base_score, quote_score)

\* The loop returns None at the first asset with fewer than LOOKBACK_WEEKS
\* rows; the table has the base row, with the pair score, then the quote row.
analyze_currency_pair_snapshot(base_asset, quote_asset, data) ==
    LET base_df == RowsOf(data, base_asset)
        quote_df == RowsOf(data, quote_asset)
    IN  IF Len(base_df) < LOOKBACK_WEEKS THEN None
        ELSE IF Len(quote_df) < LOOKBACK_WEEKS THEN None
        ELSE LET b == SnapshotEntry(base_df)
                 q == SnapshotEntry(quote_df)
             IN  Table(<<[asset |-> base_asset, SpecNet |-> b.SpecNet,
                          SpecIdx |-> b.SpecIdx, CommNet |-> b.CommNet,
                          CommIdx |-> b.CommIdx,
                          PairScore |-> pair_score(b.SpecIdx, q.SpecIdx)],
                         [asset |-> quote_asset, SpecNet |-> q.SpecNet,
                          SpecIdx |-> q.SpecIdx, CommNet |-> q.CommNet,
                          CommIdx |-> q.CommIdx, PairScore |-> NaN]>>)

\* a left join that fills a date the quote lacks with the quote's latest
\* earlier index
MergeInner_ffill(base_df, base_idx, quote_df, quote_idx) ==
    LET Earlier(i) == {m \in 1..Len(quote_df) : quote_df[m].Date <= base_df[i].Date}
        F[i \in 0..Len(base_df)] ==
            IF i = 0 THEN <<>>
            ELSE Append(F[i - 1],
                        [Date |-> base_df[i].Date,
                         NonComm_Idx_base |-> base_idx[i],
                         NonComm_Idx_quote |->
                             IF Earlier(i) = {} THEN NaN
                             ELSE quote_idx[CHOOSE m \in Earlier(i) :
                                                \A u \in Earlier(i) : u <= m]])
    IN  F[Len(base_df)]

\* pd.merge(base_series, quote_series, on='Date', how='inner'): the rows of
\* the left series whose Date is in the right one, in the left order
MergeInner(base_df, base_idx, quote_df, quote_idx) ==
    LET F[i \in 0..Len(base_df)] ==
            IF i = 0 THEN <<>>
            ELSE IF \E j \in 1..Len(quote_df) : quote_df[j].Date = base_df[i].Date
                 THEN LET j == CHOOSE m \in 1..Len(quote_df) :
                                   quote_df[m].Date = base_df[i].Date
                      IN  Append(F[i - 1], [Date |-> base_df[i].Date,
                                            NonComm_Idx_base |-> base_idx[i],
                                            NonComm_Idx_quote |-> quote_idx[j]])
                 ELSE F[i - 1]
    IN  F[Len(base_df)]

\* sort_index(ascending=False) of rows with distinct dates
RECURSIVE SortDatesDescending(_)
SortDatesDescending(rows) ==
    IF rows = <<>> THEN <<>>
    ELSE LET i == CHOOSE m \in 1..Len(rows) :
                      \A j \in 1..Len(rows) : rows[j].Date <= rows[m].Date
         IN  <<rows[i]>> \o SortDatesDescending(
                 SubSeq(rows, 1, i - 1) \o SubSeq(rows, i + 1, Len(rows)))

\* a difference to the latest earlier row that is not NaN
Diff_skip_nan(s) ==
    [i \in 1..Len(s) |->
        LET earlier == {j \in 1..(i - 1) : ~IsNaN(s[j])}
        IN  IF earlier = {} THEN NaN
            ELSE FSub(s[i], s[CHOOSE j \in earlier : \A m \in earlier : m <= j])]

\* a first difference whose first row is filled with 0
Diff_filled(s) ==
    [i \in 1..Len(s) |-> IF i = 1 THEN Num(0) ELSE FSub(s[i], s[i - 1])]

\* Series.diff(): NaN in the first row
Diff(s) ==
    [i \in 1..Len(s) |-> IF i = 1 THEN NaN ELSE FSub(s[i], s[i - 1])]

analyze_score_history(base_asset, quote_asset, data) ==
    LET base_df == drop_duplicates(RowsOf(data, base_asset))
        quote_df == drop_duplicates(RowsOf(data, quote_asset))
    IN  IF Len(base_df) < LOOKBACK_WEEKS \/ Len(quote_df) < LOOKBACK_WEEKS THEN None
        ELSE LET base_idx == get_cot_index(Column(base_df, "NonComm_Net"), LOOKBACK_WEEKS)
                 quote_idx == get_cot_index(Column(quote_df, "NonComm_Net"), LOOKBACK_WEEKS)
                 merged == MergeInner(base_df, base_idx, quote_df, quote_idx)
                 score == [i \in 1..Len(merged) |->
                              FSub(merged[i].NonComm_Idx_base, merged[i].NonComm_Idx_quote)]
                 diff == Diff(score)
                 full == [i \in 1..Len(merged) |->
                             [Date |-> merged[i].Date, Score |-> score[i],
                              Change |-> diff[i]]]
                 \* dropna()
                 kept == SelectSeq(full, LAMBDA r : ~IsNaN(r.Score) /\ ~IsNaN(r.Change))
             IN  Table(SortDatesDescending(kept))

----------------------------------------------------------------------------
(* Inputs *)

RECURSIVE SeqsUpTo(_, _)
SeqsUpTo(S, n) ==
    IF n = 0 THEN {<<>>}
    ELSE LET shorter == SeqsUpTo(S, n - 1)
         IN  shorter \cup {Append(q, v) : q \in {r \in shorter : Len(r) = n - 1}, v \in S}

\* values of a net-position column; NaN is a missing observation
ColumnValues == {NaN} \cup {Num(v) : v \in {0, 1, 4, 5}}

\* the variables a specification does not use
NoIndex ==
    /\ series = <<>> /\ series2 = <<>> /\ lookback = 0
    /\ index = <<>> /\ index2 = <<>>

NoPair == ccy1 = "" /\ ccy2 = "" /\ pair_info = <<>>

NoCot ==
    /\ week = 0 /\ newest_first = FALSE /\ raw = <<>> /\ all_cot_data = <<>>
    /\ snapshot_df = None /\ history_df = None

NoPrice == price_history = <<>> /\ price_history_df = None

NoScan ==
    /\ today = [day |-> 0, hour |-> 0] /\ all_data = <<>>
    /\ divergence_top = <<>> /\ flow_top = <<>> /\ reversal_top = <<>>

----------------------------------------------------------------------------
(* Specification of the rolling index: the inputs are drawn, then the      *)
(* function is applied to both columns.                                    *)

InitIndex ==
    /\ pc = "index_input"
    /\ lookback \in 1..MaxLookback
    /\ series \in SeqsUpTo(ColumnValues, MaxLen)
    /\ series2 \in {h \o series : h \in SeqsUpTo(ColumnValues, MaxHist)}
    /\ index = <<>>
    /\ index2 = <<>>
    /\ raised = "none"
    /\ NoPair
    /\ NoCot
    /\ NoScan
    /\ NoPrice

ComputeIndex ==
    /\ pc = "index_input"
    /\ index' = get_cot_index(series, lookback)
    /\ index2' = get_cot_index(series2, lookback)
    /\ pc' = "index_done"
    /\ UNCHANGED <<priceVars, scanVars, series, series2, lookback, raised, pairVars, cotVars>>

\* a second call on the same column
RecomputeIndex ==
    /\ pc = "index_done"
    /\ index' = get_cot_index(series, lookback)
    /\ index2' = get_cot_index(series2, lookback)
    /\ pc' = "index_again"
    /\ UNCHANGED <<priceVars, scanVars, series, series2, lookback, raised, pairVars, cotVars>>

NextIndex == ComputeIndex \/ RecomputeIndex

SpecIndex == InitIndex /\ [][NextIndex]_vars

----------------------------------------------------------------------------
(* Specification of pair normalisation: get_pair_info called with any two  *)
(* codes, and main's use of it behind the two select boxes.                *)

\* codes a caller can pass: the hierarchy's and one that is not in it
CurrencyCodes == Range(CURRENCY_HIERARCHY) \cup {"NZD"}

InitPair ==
    /\ pc = "pair_input"
    /\ ccy1 \in CurrencyCodes
    /\ ccy2 \in CurrencyCodes
    /\ pair_info = <<>>
    /\ raised = "none"
    /\ NoIndex
    /\ NoCot
    /\ NoScan
    /\ NoPrice

\* get_pair_info(ccy1, ccy2) called directly
call_get_pair_info ==
    /\ pc = "pair_input"
    /\ LET r == get_pair_info(ccy1, ccy2)
       IN  /\ pair_info' = r.ret
           /\ raised' = r.raised
           /\ pc' = IF r.raised = "none" THEN "pair_returned" ELSE "pair_raised"
    /\ UNCHANGED <<priceVars, scanVars, ccy1, ccy2, indexVars, cotVars>>

\* main: both select boxes offer CURRENCY_HIERARCHY; equal choices stop the
\* page, otherwise get_pair_info is called outside the try block
main_get_pair_info ==
    /\ pc = "pair_input"
    /\ ccy1 \in Range(CURRENCY_HIERARCHY)
    /\ ccy2 \in Range(CURRENCY_HIERARCHY)
    /\ IF ccy1 = ccy2
       THEN /\ pc' = "main_stopped"
            /\ UNCHANGED <<priceVars, scanVars, pair_info, raised>>
       ELSE LET r == get_pair_info(ccy1, ccy2)
            IN  /\ pair_info' = r.ret
                /\ raised' = r.raised
                /\ pc' = IF r.raised = "none" THEN "main_paired" ELSE "main_raised"
    /\ UNCHANGED <<priceVars, scanVars, ccy1, ccy2, indexVars, cotVars>>

NextPair == call_get_pair_info \/ main_get_pair_info

SpecPair == InitPair /\ [][NextPair]_vars

----------------------------------------------------------------------------
(* Specification of the COT part of main for the pair the user entered as  *)
(* JPY, USD: the provider's frame grows report by report, then main        *)
(* prepares it and runs the snapshot and the history on it.                *)

FetchedRow(head, exchange, date, p) ==
    [Market |-> [head |-> head, exchange |-> exchange],
     Date |-> date,
     NonComm_Long |-> p.NonComm_Long, NonComm_Short |-> p.NonComm_Short,
     Comm_Long |-> p.Comm_Long, Comm_Short |-> p.Comm_Short]

Position(sl, ss, cl, cs) ==
    [NonComm_Long |-> sl, NonComm_Short |-> ss, Comm_Long |-> cl, Comm_Short |-> cs]

\* the position counts a weekly report row may carry
FeedPositions == {Position(3, 1, 1, 3), Position(1, 2, 2, 1)}

BaseMarket == "U.S. DOLLAR INDEX"
QuoteMarket == "JAPANESE YEN"
\* a market whose name is not in name_map
OtherMarket == "EURO FX/BRITISH POUND XRATE"

\* the rows a fetch adds go before or after the ones it already has
Fetched(rows) == IF newest_first THEN rows \o raw ELSE raw \o rows

InitCot ==
    /\ pc = "fetching"
    /\ ccy1 = "JPY"
    /\ ccy2 = "USD"
    /\ pair_info = get_pair_info("JPY", "USD").ret
    /\ week = 0
    /\ newest_first \in BOOLEAN
    /\ raw = <<>>
    /\ all_cot_data = <<>>
    /\ snapshot_df = None
    /\ history_df = None
    /\ raised = "none"
    /\ NoIndex
    /\ NoScan
    /\ NoPrice

\* one more weekly report: each of the two markets has a row in it, or none
cot_all_report ==
    /\ pc = "fetching"
    /\ week < MaxWeeks
    /\ \E b \in {<<>>} \cup {<<FetchedRow(BaseMarket, "ICE FUTURES U.S.", week + 1, p)>> :
                                 p \in FeedPositions},
          q \in {<<>>} \cup {<<FetchedRow(QuoteMarket, "CHICAGO MERCANTILE EXCHANGE", week + 1, p)>> :
                                 p \in FeedPositions} :
            raw' = Fetched(b \o q)
    /\ week' = week + 1
    /\ UNCHANGED <<priceVars, scanVars, pc, newest_first, all_cot_data, snapshot_df, history_df,
                   indexVars, pairVars, raised>>

ExtraRows == {j \in 1..Len(raw) : raw[j].Market.exchange = "OTHER EXCHANGE"}

\* the latest report also has a row of another exchange: for a market that
\* already has a row of that date, or for a market that is not in name_map
cot_all_extra_row ==
    /\ pc = "fetching"
    /\ week >= 1
    /\ Cardinality(ExtraRows) < MaxExtra
    /\ \E head \in {BaseMarket, QuoteMarket, OtherMarket}, p \in FeedPositions :
            /\ \/ head = OtherMarket
               \/ \E j \in 1..Len(raw) : raw[j].Market.head = head /\ raw[j].Date = week
            /\ raw' = Fetched(<<FetchedRow(head, "OTHER EXCHANGE", week, p)>>)
    /\ UNCHANGED <<priceVars, scanVars, pc, week, newest_first, all_cot_data, snapshot_df, history_df,
                   indexVars, pairVars, raised>>

\* all_cot_data = get_prepared_cot_data()
main_get_prepared_cot_data ==
    /\ pc = "fetching"
    /\ LET r == get_prepared_cot_data(raw)
       IN  /\ all_cot_data' = r.ret
           /\ raised' = r.raised
           /\ pc' = IF r.raised = "none" THEN "prepared" ELSE "prepare_raised"
    /\ UNCHANGED <<priceVars, scanVars, week, newest_first, raw, snapshot_df, history_df, indexVars, pairVars>>

base_asset_cot == COT_ASSET_NAMES[pair_info[1]]
quote_asset_cot == COT_ASSET_NAMES[pair_info[2]]

\* snapshot_df = analyze_currency_pair_snapshot(...)
main_snapshot ==
    /\ pc = "prepared"
    /\ snapshot_df' = analyze_currency_pair_snapshot(base_asset_cot, quote_asset_cot, all_cot_data)
    /\ pc' = "snapshot_done"
    /\ UNCHANGED <<priceVars, scanVars, week, newest_first, raw, all_cot_data, history_df, indexVars,
                   pairVars, raised>>

\* history_df = analyze_score_history(...)
main_history ==
    /\ pc = "snapshot_done"
    /\ history_df' = analyze_score_history(base_asset_cot, quote_asset_cot, all_cot_data)
    /\ pc' = "history_done"
    /\ UNCHANGED <<priceVars, scanVars, week, newest_first, raw, all_cot_data, snapshot_df, indexVars,
                   pairVars, raised>>

NextCot ==
    \/ cot_all_report
    \/ cot_all_extra_row
    \/ main_get_prepared_cot_data
    \/ main_snapshot
    \/ main_history

SpecCot == InitCot /\ [][NextCot]_vars

----------------------------------------------------------------------------
(* Specification of the net-position derivation: get_prepared_cot_data on  *)
(* a frame of one row with any counts, negative ones included.             *)

CountRange == (0 - 2)..MaxCount

InitNet ==
    /\ pc = "fetching"
    /\ week = 1
    /\ newest_first = FALSE
    /\ \E sl \in CountRange, ss \in CountRange, cl \in {0 - 1, 2}, cs \in {0, 1} :
            raw = <<FetchedRow(QuoteMarket, "CHICAGO MERCANTILE EXCHANGE", 1,
                               Position(sl, ss, cl, cs))>>
    /\ all_cot_data = <<>>
    /\ snapshot_df = None
    /\ history_df = None
    /\ raised = "none"
    /\ NoIndex
    /\ NoPair
    /\ NoScan
    /\ NoPrice

NextNet == main_get_prepared_cot_data

SpecNet == InitNet /\ [][NextNet]_vars

----------------------------------------------------------------------------
(* Properties of the rolling index *)

IndexComputed == pc \in {"index_done", "index_again"}

\* the positions i-lookback+1..i of the lookback window of position i
WindowPositions(i) == (i - lookback + 1)..i

\* the window of position i has lookback values and none is missing
FullWindow(s, i) == i >= lookback /\ \A j \in WindowPositions(i) : IsNum(s[j])

FlatWindow(s, i) == \A j, m \in WindowPositions(i) : s[j] = s[m]

IsWindowMax(s, i) == \A j \in WindowPositions(i) : ~FLess(s[i], s[j])
IsWindowMin(s, i) == \A j \in WindowPositions(i) : ~FLess(s[j], s[i])

\* C1: at every position whose lookback window is full and not flat, the
\* rolling index is a number in [0,100]; it is exactly 100 when the value is
\* the maximum of its window and exactly 0 when it is the minimum.
C1_IndexRange ==
    IndexComputed =>
        \A i \in 1..Len(series) :
            (FullWindow(series, i) /\ ~FlatWindow(series, i)) =>
                /\ IsNum(index[i])
                /\ 0 <= index[i].n
                /\ index[i].n <= 100 * index[i].d
                /\ IsWindowMax(series, i) => index[i] = Num(100)
                /\ IsWindowMin(series, i) => index[i] = Num(0)

C1_Witness ==
    /\ IndexComputed
    /\ \E i, j \in 1..Len(series) :
            /\ FullWindow(series, i) /\ index[i] = Num(80)
            /\ FullWindow(series, j) /\ ~FlatWindow(series, j)
            /\ \/ IsWindowMax(series, j) /\ index[j] = Num(100)
               \/ IsWindowMin(series, j) /\ index[j] = Num(0)

\* the index of the last value of a window w of integers, from the formula
\* (value - min) / (max - min) * 100
WindowIndex(w) ==
    IF \E j \in 1..Len(w) : ~IsNum(w[j]) THEN NaN
    ELSE LET vals == {w[j].n : j \in 1..Len(w)}
             mn == CHOOSE v \in vals : \A u \in vals : v <= u
             mx == CHOOSE v \in vals : \A u \in vals : v >= u
         IN  IF mx = mn THEN NaN ELSE Frac((w[Len(w)].n - mn) * 100, mx - mn)

\* C2: the index at 0-based position i is undefined when i + 1 < lookback,
\* and otherwise is the value the formula gives for exactly the values at
\* positions i-lookback+1..i.
C2_WindowOnly ==
    IndexComputed =>
        /\ Len(index) = Len(series)
        /\ \A i \in 1..Len(series) :
               IF i < lookback THEN IsNaN(index[i])
               ELSE index[i] = WindowIndex(SubSeq(series, i - lookback + 1, i))

C2_Witness ==
    /\ IndexComputed
    /\ lookback = 3
    /\ Len(series) = 4
    /\ IsNaN(index[2]) /\ IsNum(series[2])
    /\ IsNum(index[3])
    /\ IsNum(index[4]) /\ index[4] # index[3]

\* C3: when the maximum and the minimum of a full window are equal, the
\* index at that position is undefined (NaN): nothing is raised and no
\* number stands in for it.
C3_FlatWindowUndefined ==
    IndexComputed =>
        /\ raised = "none"
        /\ \A i \in 1..Len(series) :
               (FullWindow(series, i) /\ FlatWindow(series, i)) => IsNaN(index[i])

C3_Witness ==
    /\ IndexComputed
    /\ lookback >= 2
    /\ raised = "none"
    /\ \E i \in 1..Len(series) :
            FullWindow(series, i) /\ FlatWindow(series, i) /\ IsNaN(index[i])

LastValues(s) == SubSeq(s, Len(s) - lookback + 1, Len(s))

\* two columns of at least lookback values whose last lookback values agree
SameLastWindow ==
    /\ Len(series) >= lookback
    /\ Len(series2) >= lookback
    /\ LastValues(series) = LastValues(series2)

----------------------------------------------------------------------------
(* Properties of pair normalisation *)

PairCalled == pc \in {"pair_returned", "pair_raised", "main_paired", "main_raised"}

\* the place of a code in the market-convention order, 1 = first
Rank(c) == CHOOSE j \in 1..7 : <<"EUR", "GBP", "AUD", "USD", "CAD", "CHF", "JPY">>[j] = c

Known(c) == c \in {"EUR", "GBP", "AUD", "USD", "CAD", "CHF", "JPY"}

\* C6: for two distinct codes of the hierarchy the base is the one that
\* comes earlier in it and the quote the other, so both argument orders
\* return the same (base, quote, ticker) and base precedes quote.
C6_PairOrder ==
    (PairCalled /\ Known(ccy1) /\ Known(ccy2) /\ ccy1 # ccy2) =>
        /\ raised = "none"
        /\ Len(pair_info) = 3
        /\ pair_info[1] = (IF Rank(ccy1) < Rank(ccy2) THEN ccy1 ELSE ccy2)
        /\ pair_info[2] = (IF Rank(ccy1) < Rank(ccy2) THEN ccy2 ELSE ccy1)
        /\ Rank(pair_info[1]) < Rank(pair_info[2])
        /\ get_pair_info(ccy2, ccy1).ret = pair_info

C6_Witness ==
    /\ pc = "main_paired"
    /\ ccy1 = "JPY" /\ ccy2 = "GBP"
    /\ pair_info = <<"GBP", "JPY", "GBPJPY=X">>

\* C7: the normalisation reports whether the requested order is inverted:
\* the result carries a flag that is true exactly when the first argument
\* is not the resulting base.
C7_InvertedReported ==
    (PairCalled /\ Known(ccy1) /\ Known(ccy2) /\ ccy1 # ccy2) =>
        /\ Len(pair_info) = 4
        /\ pair_info[4] = (ccy1 # pair_info[1])

\* C8: when either code is absent from the hierarchy the call raises, the
\* exception reaches the caller, and no (base, quote) result is returned.
C8_UnknownCurrencyRaises ==
    (pc # "pair_input" /\ (~Known(ccy1) \/ ~Known(ccy2))) =>
        /\ pc = "pair_raised"
        /\ raised = "ValueError"
        /\ pair_info = <<>>

C8_Witness ==
    /\ pc = "pair_raised"
    /\ ccy1 = "USD" /\ ccy2 = "NZD"
    /\ raised = "ValueError"

----------------------------------------------------------------------------
(* Properties of the net-position derivation *)

Prepared == pc \in {"prepared", "prepare_raised"}

NegativeCount(r) ==
    \/ r.NonComm_Long < 0 \/ r.NonComm_Short < 0
    \/ r.Comm_Long < 0 \/ r.Comm_Short < 0

\* C5: the net of every category is long - short when no count of the
\* record is negative, and a record with a negative count makes the
\* derivation signal an error instead of producing a net.
C5_NetOrError ==
    Prepared =>
        \A i \in 1..Len(raw) :
            IF NegativeCount(raw[i])
            THEN raised # "none" /\ all_cot_data = <<>>
            ELSE /\ raised = "none"
                 /\ \E j \in 1..Len(all_cot_data) :
                        /\ all_cot_data[j].Date = raw[i].Date
                        /\ all_cot_data[j].NonComm_Net
                               = raw[i].NonComm_Long - raw[i].NonComm_Short
                        /\ all_cot_data[j].Comm_Net
                               = raw[i].Comm_Long - raw[i].Comm_Short

----------------------------------------------------------------------------
(* Properties of the pair analysis *)

SnapshotDone == pc \in {"snapshot_done", "history_done"}

\* the NonComm_Net values of the last LOOKBACK_WEEKS rows of an asset in the
\* prepared frame
LatestWindow(asset) ==
    LET rows == SelectSeq(all_cot_data, LAMBDA r : r.Name = asset)
    IN  [i \in 1..LOOKBACK_WEEKS |->
            Num(rows[Len(rows) - LOOKBACK_WEEKS + i].NonComm_Net)]

\* b - q on two index values
Difference(b, q) ==
    IF IsNaN(b) \/ IsNaN(q) THEN NaN
    ELSE Frac(b.n * q.d - q.n * b.d, b.d * q.d)

\* C9: the snapshot's pair score is the latest speculative-net rolling index
\* of the base asset minus that of the quote asset, for the US dollar as
\* base like for any asset; indices 80 and 20 give 60.
C9_SnapshotScore ==
    /\ pair_score(Num(80), Num(20)) = Num(60)
    /\ (SnapshotDone /\ ~snapshot_df.is_none) =>
          LET b == WindowIndex(LatestWindow("USDollar"))
              q == WindowIndex(LatestWindow("JapaneseYen"))
          IN  /\ Len(snapshot_df.rows) = 2
              /\ snapshot_df.rows[1].asset = "USDollar"
              /\ snapshot_df.rows[1].SpecIdx = b
              /\ snapshot_df.rows[2].asset = "JapaneseYen"
              /\ snapshot_df.rows[2].SpecIdx = q
              /\ snapshot_df.rows[1].PairScore = Difference(b, q)

\* the base is at its window's low and the quote at its window's high
C9_Witness ==
    /\ SnapshotDone
    /\ ~snapshot_df.is_none
    /\ snapshot_df.rows[1].SpecIdx = Num(0)
    /\ snapshot_df.rows[2].SpecIdx = Num(100)
    /\ snapshot_df.rows[1].PairScore = Num(0 - 100)

\* the number of observations of an asset: the dates it has a record for
Observed(asset) ==
    Cardinality({all_cot_data[j].Date : j \in {m \in 1..Len(all_cot_data) :
                                                  all_cot_data[m].Name = asset}})

InsufficientData ==
    \/ Observed("USDollar") < LOOKBACK_WEEKS
    \/ Observed("JapaneseYen") < LOOKBACK_WEEKS

\* C10: the snapshot and the history return None, and raise nothing, when
\* the base or the quote series has fewer than lookback observations, and
\* return a table otherwise.
C10_InsufficientDataSignal ==
    pc = "history_done" =>
        /\ raised = "none"
        /\ snapshot_df.is_none = InsufficientData
        /\ history_df.is_none = InsufficientData

----------------------------------------------------------------------------
(* Specification of the score history on longer frames: the fetched frame  *)
(* has MaxHistoryWeeks weekly reports, each with a row or none for each of *)
(* the two markets; main prepares it and runs the snapshot and the history *)
(* on it.                                                                  *)

\* what a weekly report has for a market: no row, or a row of one position
WeekChoices == {<<>>} \cup {<<p>> : p \in FeedPositions}

\* the frame of the reports 1..w, oldest first
RECURSIVE WeeklyRows(_, _, _)
WeeklyRows(b, q, w) ==
    IF w = 0 THEN <<>>
    ELSE WeeklyRows(b, q, w - 1)
         \o (IF b[w] = <<>> THEN <<>>
             ELSE <<FetchedRow(BaseMarket, "ICE FUTURES U.S.", w, b[w][1])>>)
         \o (IF q[w] = <<>> THEN <<>>
             ELSE <<FetchedRow(QuoteMarket, "CHICAGO MERCANTILE EXCHANGE", w, q[w][1])>>)

InitHistory ==
    /\ pc = "fetching"
    /\ ccy1 = "JPY"
    /\ ccy2 = "USD"
    /\ pair_info = get_pair_info("JPY", "USD").ret
    /\ week = MaxHistoryWeeks
    /\ newest_first = FALSE
    /\ \E b \in [1..MaxHistoryWeeks -> WeekChoices],
          q \in [1..MaxHistoryWeeks -> WeekChoices] :
            raw = WeeklyRows(b, q, MaxHistoryWeeks)
    /\ all_cot_data = <<>>
    /\ snapshot_df = None
    /\ history_df = None
    /\ raised = "none"
    /\ NoIndex
    /\ NoScan
    /\ NoPrice

NextHistory ==
    \/ main_get_prepared_cot_data
    \/ main_snapshot
    \/ main_history

SpecHistory == InitHistory /\ [][NextHistory]_vars

----------------------------------------------------------------------------
(* Properties of the score history *)

HistoryDone == pc = "history_done"

\* the dates for which the fetched frame has a row of a market
ReportDates(head) ==
    {raw[j].Date : j \in {m \in 1..Len(raw) : raw[m].Market.head = head}}

CommonDates == ReportDates(BaseMarket) \cap ReportDates(QuoteMarket)

HistoryDates == {history_df.rows[i].Date : i \in 1..Len(history_df.rows)}

\* the elements of a set of integers in ascending order
RECURSIVE Ascending(_)
Ascending(S) ==
    IF S = {} THEN <<>>
    ELSE LET mx == CHOOSE v \in S : \A u \in S : u <= v
         IN  Append(Ascending(S \ {mx}), mx)

\* the speculative net the fetched frame reports for a market at a date:
\* that of the last such row of the frame
ReportedNet(head, d) ==
    LET rows == {m \in 1..Len(raw) : raw[m].Market.head = head /\ raw[m].Date = d}
        j == CHOOSE m \in rows : \A u \in rows : u <= m
    IN  raw[j].NonComm_Long - raw[j].NonComm_Short

\* the rolling index of a market at one of its report dates d, from the
\* formula over its last LOOKBACK_WEEKS reports up to d
IndexAt(head, d) ==
    LET dates == Ascending({e \in ReportDates(head) : e <= d})
        n == Len(dates)
    IN  IF n < LOOKBACK_WEEKS THEN NaN
        ELSE WindowIndex([i \in 1..LOOKBACK_WEEKS |->
                             Num(ReportedNet(head, dates[n - LOOKBACK_WEEKS + i]))])

\* the pair score of a common date
ScoreAt(d) == Difference(IndexAt(BaseMarket, d), IndexAt(QuoteMarket, d))

\* C11: every row of the score history has a date that is present in both
\* the base and the quote series, and its score is the difference of the
\* two indices of that very date: a date that only one series has never
\* appears and no value is carried forward to it.  With base dates
\* 1, 2, 3, 5 and quote dates 1, 2, 4, 5 the history has no date outside
\* 1, 2, 5.
C11_HistoryOnCommonDates ==
    (HistoryDone /\ ~history_df.is_none) =>
        /\ HistoryDates \subseteq CommonDates
        /\ \A i \in 1..Len(history_df.rows) :
               history_df.rows[i].Score = ScoreAt(history_df.rows[i].Date)

\* base dates 1, 2, 3, 5 and quote dates 1, 2, 4, 5 with a history row
C11_Witness ==
    /\ HistoryDone
    /\ ~history_df.is_none
    /\ ReportDates(BaseMarket) = {1, 2, 3, 5}
    /\ ReportDates(QuoteMarket) = {1, 2, 4, 5}
    /\ HistoryDates = {5}

\* C12: when the base and the quote series have no common date or exactly
\* one, so that the inner join has zero rows or one row, the score history
\* is an empty table and nothing is raised.
C12_ShortJoinEmptyHistory ==
    (HistoryDone /\ ~history_df.is_none /\ Cardinality(CommonDates) <= 1) =>
        /\ raised = "none"
        /\ history_df.rows = <<>>

\* one common date, at which both indices are defined
C12_Witness ==
    /\ HistoryDone
    /\ ~history_df.is_none
    /\ Cardinality(CommonDates) = 1
    /\ \A d \in CommonDates : IsNum(ScoreAt(d))
    /\ history_df.rows = <<>>

\* the common dates before a date
EarlierCommon(d) == {e \in CommonDates : e < d}

\* the common date immediately before a date that has one
PrevCommon(d) == CHOOSE e \in EarlierCommon(d) : \A u \in EarlierCommon(d) : u <= e

\* the dates the history must have a row for
HistoryExpected ==
    {d \in CommonDates :
        /\ IsNum(IndexAt(BaseMarket, d))
        /\ IsNum(IndexAt(QuoteMarket, d))
        /\ EarlierCommon(d) # {}
        /\ IsNum(ScoreAt(PrevCommon(d)))}

\* C20: the score history has a row for a date d exactly when d is a common
\* date of both series, both rolling indices are defined at d and the
\* common date immediately before d has a defined score; the row's weekly
\* change is score(d) minus the score of that immediately preceding common
\* date, and the rows are in descending order of date.
C20_HistoryRows ==
    HistoryDone =>
        /\ HistoryDates = HistoryExpected
        /\ \A i \in 1..Len(history_df.rows) :
               LET d == history_df.rows[i].Date
               IN  /\ d \in HistoryExpected
                   /\ history_df.rows[i].Score = ScoreAt(d)
                   /\ history_df.rows[i].Change
                          = Difference(ScoreAt(d), ScoreAt(PrevCommon(d)))
        /\ \A i \in 1..(Len(history_df.rows) - 1) :
               history_df.rows[i].Date > history_df.rows[i + 1].Date

\* two rows, the newer one with a change taken over a gap of two weeks; a
\* common date with defined indices has no row because the common date
\* before it has no score
C20_Witness ==
    /\ HistoryDone
    /\ Len(history_df.rows) = 2
    /\ history_df.rows[1].Date - PrevCommon(history_df.rows[1].Date) = 2
    /\ history_df.rows[1].Change # Num(0)
    /\ \E d \in CommonDates \ HistoryDates :
           /\ IsNum(ScoreAt(d))
           /\ EarlierCommon(d) # {}
           /\ IsNaN(ScoreAt(PrevCommon(d)))

----------------------------------------------------------------------------
(* Properties of the series the indices are computed on *)

\* the rows the snapshot computes an asset's indices on
SnapshotSeries(asset) == RowsOf(all_cot_data, asset)

\* the rows the history computes an asset's index on
HistorySeries(asset) == drop_duplicates(RowsOf(all_cot_data, asset))

StrictlyIncreasingDates(rows) ==
    \A i \in 1..Len(rows) - 1 : rows[i].Date < rows[i + 1].Date

LatestDate(head) ==
    CHOOSE d \in ReportDates(head) : \A e \in ReportDates(head) : e <= d

\* the snapshot's part of C13
SnapshotSeriesDeduplicated ==
    (SnapshotDone /\ ~snapshot_df.is_none) =>
        /\ StrictlyIncreasingDates(SnapshotSeries("USDollar"))
        /\ StrictlyIncreasingDates(SnapshotSeries("JapaneseYen"))
        /\ snapshot_df.rows[1].SpecIdx = IndexAt(BaseMarket, LatestDate(BaseMarket))
        /\ snapshot_df.rows[2].SpecIdx = IndexAt(QuoteMarket, LatestDate(QuoteMarket))

\* the history's part of C13
HistorySeriesDeduplicated ==
    (HistoryDone /\ ~history_df.is_none) =>
        /\ StrictlyIncreasingDates(HistorySeries("USDollar"))
        /\ StrictlyIncreasingDates(HistorySeries("JapaneseYen"))
        /\ \A i \in 1..Len(history_df.rows) :
               history_df.rows[i].Score = ScoreAt(history_df.rows[i].Date)

\* C13: the series of an asset on which the snapshot and the history
\* compute a rolling index are strictly increasing by date, without
\* duplicate dates, and of several fetched records of one asset and date
\* only the last one enters the index.
C13_SeriesDeduplicated ==
    /\ SnapshotSeriesDeduplicated
    /\ HistorySeriesDeduplicated

----------------------------------------------------------------------------
(* Scanners, pages/COTinfo.py *)

DATA_FRESHNESS_THRESHOLD_DAYS == 9

\* contract code -> name; the Japanese names are written in English
ASSET_MAP ==
    ("090741" :> "CanadianDollar") @@ ("092741" :> "SwissFranc") @@
    ("096742" :> "BritishPound") @@ ("097741" :> "JapaneseYen") @@
    ("099741" :> "Euro") @@ ("232741" :> "AustralianDollar") @@
    ("098662" :> "USDollar (DXY)") @@ ("13874+" :> "S&P 500") @@
    ("20974+" :> "NASDAQ 100") @@ ("12460+" :> "Dow Jones") @@
    ("240743" :> "Nikkei 225") @@ ("088691" :> "Gold") @@
    ("084691" :> "Silver") @@ ("06765A" :> "CrudeOil (WTI)") @@
    ("023391" :> "NaturalGas") @@ ("043602" :> "US10YearNote") @@
    ("020601" :> "US30YearBond")

\* the order of the names of ASSET_MAP under string comparison, by code
\* point of the original names
ScannerNameOrder ==
    <<"Dow Jones", "NASDAQ 100", "S&P 500", "CanadianDollar", "SwissFranc",
      "Euro", "CrudeOil (WTI)", "NaturalGas", "JapaneseYen", "Nikkei 225",
      "USDollar (DXY)", "US10YearNote", "US30YearBond", "BritishPound",
      "AustralianDollar", "Gold", "Silver">>

ScannerNameRank(name) ==
    CHOOSE j \in 1..Len(ScannerNameOrder) : ScannerNameOrder[j] = name

\* df.sort_values(by=['Name', 'Date']) of the scanner's frame: a stable sort
RECURSIVE sort_values_COTinfo(_)
sort_values_COTinfo(rows) ==
    IF rows = <<>> THEN <<>>
    ELSE LET sorted == sort_values_COTinfo(SubSeq(rows, 1, Len(rows) - 1))
             r == rows[Len(rows)]
             k == Cardinality({j \in 1..Len(sorted) :
                     \/ ScannerNameRank(sorted[j].Name) < ScannerNameRank(r.Name)
                     \/ sorted[j].Name = r.Name /\ sorted[j].Date <= r.Date})
         IN  SubSeq(sorted, 1, k) \o <<r>> \o SubSeq(sorted, k + 1, Len(sorted))

\* get_prepared_cot_data of COTinfo.py: the rows of the codes of ASSET_MAP,
\* named, sorted by name and date, with the three net columns
get_prepared_cot_data_COTinfo(frame) ==
    LET kept == SelectSeq(frame, LAMBDA r : r.Code \in DOMAIN ASSET_MAP)
        named == [i \in 1..Len(kept) |->
                     [Name |-> ASSET_MAP[kept[i].Code], Date |-> kept[i].Date,
                      NonComm_Long |-> kept[i].NonComm_Long,
                      NonComm_Short |-> kept[i].NonComm_Short,
                      Comm_Long |-> kept[i].Comm_Long,
                      Comm_Short |-> kept[i].Comm_Short,
                      Retail_Long |-> kept[i].Retail_Long,
                      Retail_Short |-> kept[i].Retail_Short]]
        sorted == sort_values_COTinfo(named)
    IN  [i \in 1..Len(sorted) |->
            [Name |-> sorted[i].Name, Date |-> sorted[i].Date,
             NonComm_Long |-> sorted[i].NonComm_Long,
             NonComm_Short |-> sorted[i].NonComm_Short,
             Comm_Long |-> sorted[i].Comm_Long,
             Comm_Short |-> sorted[i].Comm_Short,
             Retail_Long |-> sorted[i].Retail_Long,
             Retail_Short |-> sorted[i].Retail_Short,
             NonComm_Net |-> sorted[i].NonComm_Long - sorted[i].NonComm_Short,
             Comm_Net |-> sorted[i].Comm_Long - sorted[i].Comm_Short,
             Retail_Net |-> sorted[i].Retail_Long - sorted[i].Retail_Short]]

\* the sum of the values of a column at a set of positions
RECURSIVE SumAt(_, _)
SumAt(s, P) ==
    IF P = {} THEN Num(0)
    ELSE LET j == CHOOSE m \in P : TRUE
         IN  FSub(SumAt(s, P \ {j}), FNeg(s[j]))

\* Series.rolling(window).mean(), min_periods = window
rolling_mean(s, window) ==
    [i \in 1..Len(s) |->
        LET obs == Observations(s, window, i)
        IN  IF Cardinality(obs) < window THEN NaN
            ELSE FDiv(SumAt(s, obs), Num(window))]

\* Series.rolling(window).std(), min_periods = window, ddof = 1.  The
\* standard deviation is the square root of the sample variance; it is
\* modelled by the variance: the one is 0, or NaN, exactly when the other is.
rolling_var(s, window) ==
    LET mean == rolling_mean(s, window)
    IN  [i \in 1..Len(s) |->
            LET obs == Observations(s, window, i)
                sq == [j \in 1..Len(s) |->
                          FMul(FSub(s[j], mean[i]), FSub(s[j], mean[i]))]
            IN  IF Cardinality(obs) < window THEN NaN
                ELSE FDiv(SumAt(sq, obs), Num(window - 1))]

\* A quotient x / sqrt(v) is kept as its sign and its square: the value is
\* sgn * sqrt(sq), and sq is NaN for NaN.
ZNaN == [sgn |-> 0, sq |-> NaN]
ZZero == [sgn |-> 0, sq |-> Num(0)]

Sign(x) == IF x.k = "inf" THEN 1 ELSE IF x.k = "ninf" THEN 0 - 1
           ELSE IF x.n > 0 THEN 1 ELSE IF x.n < 0 THEN 0 - 1 ELSE 0

\* x / sqrt(v) for v >= 0
DivByRoot(x, v) ==
    LET sq == FDiv(FMul(x, x), v)
    IN  IF IsNaN(sq) THEN ZNaN ELSE [sgn |-> Sign(x), sq |-> sq]

\* the quotient without the test of the standard deviation
z_score_unguarded(latest_change, change_mean, change_var) ==
    DivByRoot(FSub(latest_change, change_mean), change_var)

\* (latest_change - change_mean) / change_std if change_std != 0 else 0;
\* NaN != 0 is true
z_score(latest_change, change_mean, change_var) ==
    IF change_var # Num(0)
    THEN DivByRoot(FSub(latest_change, change_mean), change_var)
    ELSE ZZero

\* (today - latest_date).days: whole days, rounded down
days_diff(now, latest_date) == ((now.day - latest_date) * 24 + now.hour) \div 24

\* the flag with the threshold day included
warning_flag_inclusive(now, latest_date) ==
    days_diff(now, latest_date) >= DATA_FRESHNESS_THRESHOLD_DAYS

\* TRUE stands for the suffix " (data old!)" of the name, FALSE for ""
warning_flag(now, latest_date) ==
    days_diff(now, latest_date) > DATA_FRESHNESS_THRESHOLD_DAYS

\* df.groupby('Name'): the names of the frame in sorted order
GroupNames(df) ==
    SelectSeq(ScannerNameOrder, LAMBDA name : \E i \in 1..Len(df) : df[i].Name = name)

\* the groups without the test of their length
ScannedGroups_unfiltered(df) == GroupNames(df)

\* the groups the loop does not skip: if len(group) < LOOKBACK_WEEKS: continue
ScannedGroups(df) ==
    SelectSeq(GroupNames(df), LAMBDA name : Len(RowsOf(df, name)) >= LOOKBACK_WEEKS)

FAbs(a) == IF FLess(a, Num(0)) THEN FNeg(a) ELSE a

\* an ascending order of the absolute keys
sort_values_key_abs_ascending(rows, abs_keys) ==
    LET n == Len(rows)
        Sorted(p) ==
            /\ \A i, j \in 1..n : i # j => p[i] # p[j]
            /\ \A i, j \in 1..n : i < j =>
                   /\ ~(IsNaN(abs_keys[p[i]]) /\ ~IsNaN(abs_keys[p[j]]))
                   /\ ~FLess(abs_keys[p[j]], abs_keys[p[i]])
                   /\ (IsNaN(abs_keys[p[i]]) /\ IsNaN(abs_keys[p[j]])) => p[i] < p[j]
    IN  {[i \in 1..n |-> rows[p[i]]] : p \in {q \in [1..n -> 1..n] : Sorted(q)}}

\* sort_values(by=..., key=abs, ascending=False) with the default kind,
\* quicksort, which is not stable: the outcomes are the orders with
\* descending absolute keys in which the rows of a NaN key come last, in
\* their order of before; rows of equal absolute keys come in any order.
\* abs_keys are the absolute values of the keys (for a z-score, its square).
sort_values_key_abs(rows, abs_keys) ==
    LET n == Len(rows)
        Sorted(p) ==
            /\ \A i, j \in 1..n : i # j => p[i] # p[j]
            /\ \A i, j \in 1..n : i < j =>
                   /\ ~(IsNaN(abs_keys[p[i]]) /\ ~IsNaN(abs_keys[p[j]]))
                   /\ ~FLess(abs_keys[p[i]], abs_keys[p[j]])
                   /\ (IsNaN(abs_keys[p[i]]) /\ IsNaN(abs_keys[p[j]])) => p[i] < p[j]
    IN  {[i \in 1..n |-> rows[p[i]]] : p \in {q \in [1..n -> 1..n] : Sorted(q)}}

\* the commercial index minus the speculative one
divergence_score_reversed(noncomm_index, comm_index) == FSub(comm_index, noncomm_index)

\* score = noncomm_index - comm_index
divergence_score(noncomm_index, comm_index) == FSub(noncomm_index, comm_index)

\* the row scan_divergence appends for a group
divergence_entry(name, group, now) ==
    LET latest_date == ILocLast(group).Date
        comm_index == ILocLast(get_cot_index(Column(group, "Comm_Net"), LOOKBACK_WEEKS))
        noncomm_index == ILocLast(get_cot_index(Column(group, "NonComm_Net"), LOOKBACK_WEEKS))
    IN  [Asset |-> name, Flag |-> warning_flag(now, latest_date),
         LatestDate |-> latest_date,
         Score |-> divergence_score(noncomm_index, comm_index),
         NonCommIdx |-> noncomm_index, CommIdx |-> comm_index]

\* the possible results of scan_divergence(df) run at the time now
scan_divergence(df, now) ==
    LET names == ScannedGroups(df)
        results == [i \in 1..Len(names) |->
                       divergence_entry(names[i], RowsOf(df, names[i]), now)]
    IN  sort_values_key_abs(results, [i \in 1..Len(results) |-> FAbs(results[i].Score)])

\* the row scan_flow appends for a group
flow_entry(name, group, now) ==
    LET latest_date == ILocLast(group).Date
        net_change == Diff(Column(group, "NonComm_Net"))
        latest_change == ILocLast(net_change)
        change_mean == ILocLast(rolling_mean(net_change, LOOKBACK_WEEKS))
        change_var == ILocLast(rolling_var(net_change, LOOKBACK_WEEKS))
    IN  [Asset |-> name, Flag |-> warning_flag(now, latest_date),
         LatestDate |-> latest_date,
         ZScore |-> z_score(latest_change, change_mean, change_var),
         Change |-> latest_change]

\* the possible results of scan_flow(df) run at the time now
scan_flow(df, now) ==
    LET names == ScannedGroups(df)
        results == [i \in 1..Len(names) |->
                       flow_entry(names[i], RowsOf(df, names[i]), now)]
    IN  sort_values_key_abs(results, [i \in 1..Len(results) |-> results[i].ZScore.sq])

\* the row scan_reversal appends for a group
reversal_entry(name, group, now) ==
    LET latest_date == ILocLast(group).Date
        noncomm_index == ILocLast(get_cot_index(Column(group, "NonComm_Net"), LOOKBACK_WEEKS))
        retail_index == ILocLast(get_cot_index(Column(group, "Retail_Net"), LOOKBACK_WEEKS))
    IN  [Asset |-> name, Flag |-> warning_flag(now, latest_date),
         LatestDate |-> latest_date,
         Score |-> FSub(noncomm_index, retail_index),
         NonCommIdx |-> noncomm_index, RetailIdx |-> retail_index]

\* the possible results of scan_reversal(df) run at the time now
scan_reversal(df, now) ==
    LET names == ScannedGroups(df)
        results == [i \in 1..Len(names) |->
                       reversal_entry(names[i], RowsOf(df, names[i]), now)]
    IN  sort_values_key_abs(results, [i \in 1..Len(results) |-> FAbs(results[i].Score)])

----------------------------------------------------------------------------
(* Specification of the scanner page: the fetched frame has MaxScanWeeks   *)
(* weekly reports, each with a row or none for each of two scanned         *)
(* contracts, and a row of a contract the page does not scan; the page     *)
(* prepares the frame and runs the three scans on it.                      *)

ScannerRow(code, date, p) ==
    [Code |-> code, Date |-> date,
     NonComm_Long |-> p.NonComm_Long, NonComm_Short |-> p.NonComm_Short,
     Comm_Long |-> p.Comm_Long, Comm_Short |-> p.Comm_Short,
     Retail_Long |-> p.Retail_Long, Retail_Short |-> p.Retail_Short]

ScannerPosition(sl, ss, cl, cs, rl, rs) ==
    [NonComm_Long |-> sl, NonComm_Short |-> ss, Comm_Long |-> cl,
     Comm_Short |-> cs, Retail_Long |-> rl, Retail_Short |-> rs]

\* the position counts a weekly report row may carry
ScannerPositions ==
    {ScannerPosition(3, 1, 1, 3, 1, 2), ScannerPosition(2, 1, 2, 1, 2, 1),
     ScannerPosition(4, 1, 3, 1, 1, 1)}

ScannerChoices == {<<>>} \cup {<<p>> : p \in ScannerPositions}

GoldCode == "088691"
SilverCode == "084691"
\* a contract code that is not in ASSET_MAP
OtherCode == "001602"

\* the date, in days, of the weekly report w
ReportDay(w) == 7 * w

\* the frame of the reports 1..w, oldest first
RECURSIVE ScannerRows(_, _, _)
ScannerRows(g, v, w) ==
    IF w = 0 THEN <<ScannerRow(OtherCode, ReportDay(1), ScannerPosition(1, 1, 1, 1, 1, 1))>>
    ELSE ScannerRows(g, v, w - 1)
         \o (IF v[w] = <<>> THEN <<>> ELSE <<ScannerRow(SilverCode, ReportDay(w), v[w][1])>>)
         \o (IF g[w] = <<>> THEN <<>> ELSE <<ScannerRow(GoldCode, ReportDay(w), g[w][1])>>)

\* the times the page runs at: on the day the latest report is exactly
\* DATA_FRESHNESS_THRESHOLD_DAYS old, at midnight or late, and the day after
ScanTimes ==
    LET d == ReportDay(MaxScanWeeks) + DATA_FRESHNESS_THRESHOLD_DAYS
    IN  {[day |-> d, hour |-> 0], [day |-> d, hour |-> 23], [day |-> d + 1, hour |-> 0]}

InitScan ==
    /\ pc = "page_fetching"
    /\ week = MaxScanWeeks
    /\ newest_first = FALSE
    /\ \E g \in [1..MaxScanWeeks -> ScannerChoices],
          v \in [1..MaxScanWeeks -> ScannerChoices] :
            raw = ScannerRows(g, v, MaxScanWeeks)
    /\ today \in ScanTimes
    /\ all_data = <<>>
    /\ divergence_top = <<>>
    /\ flow_top = <<>>
    /\ reversal_top = <<>>
    /\ all_cot_data = <<>>
    /\ snapshot_df = None
    /\ history_df = None
    /\ raised = "none"
    /\ NoIndex
    /\ NoPair
    /\ NoPrice

\* all_data = get_prepared_cot_data()
page_get_prepared_cot_data ==
    /\ pc = "page_fetching"
    /\ all_data' = get_prepared_cot_data_COTinfo(raw)
    /\ pc' = "scan_prepared"
    /\ UNCHANGED <<priceVars, today, divergence_top, flow_top, reversal_top, indexVars,
                   pairVars, cotVars, raised>>

\* divergence_top = scan_divergence(all_data)
page_scan_divergence ==
    /\ pc = "scan_prepared"
    /\ divergence_top' \in scan_divergence(all_data, today)
    /\ pc' = "divergence_done"
    /\ UNCHANGED <<priceVars, today, all_data, flow_top, reversal_top, indexVars,
                   pairVars, cotVars, raised>>

\* flow_top = scan_flow(all_data)
page_scan_flow ==
    /\ pc = "divergence_done"
    /\ flow_top' \in scan_flow(all_data, today)
    /\ pc' = "flow_done"
    /\ UNCHANGED <<priceVars, today, all_data, divergence_top, reversal_top, indexVars,
                   pairVars, cotVars, raised>>

\* reversal_top = scan_reversal(all_data)
page_scan_reversal ==
    /\ pc = "flow_done"
    /\ reversal_top' \in scan_reversal(all_data, today)
    /\ pc' = "reversal_done"
    /\ UNCHANGED <<priceVars, today, all_data, divergence_top, flow_top, indexVars,
                   pairVars, cotVars, raised>>

NextScan ==
    \/ page_get_prepared_cot_data
    \/ page_scan_divergence
    \/ page_scan_flow
    \/ page_scan_reversal

SpecScan == InitScan /\ [][NextScan]_vars

----------------------------------------------------------------------------
(* Specification of the three-asset scenario: crude oil (A) has a          *)
(* speculative net that rises every week, gold (B) one that stays the      *)
(* same and silver (C) one that falls every week; the commercials hold the *)
(* opposite position.  The page prepares the frame and runs the scans.     *)

CrudeCode == "06765A"

\* a row whose speculative net is level and whose commercial net is -level
ScenarioRow(code, w, level) ==
    ScannerRow(code, ReportDay(w), ScannerPosition(level, 0, 0, level, 1, 1))

\* the frame of the reports 1..w, oldest first
RECURSIVE ScenarioRows(_, _, _, _)
ScenarioRows(a, b, c, w) ==
    IF w = 0 THEN <<>>
    ELSE ScenarioRows(a, b, c, w - 1)
         \o <<ScenarioRow(SilverCode, w, c[w]), ScenarioRow(GoldCode, w, b[w]),
              ScenarioRow(CrudeCode, w, a[w])>>

Levels == [1..MaxScenarioWeeks -> 1..MaxNet]

\* position levels that rise every week, stay the same, fall every week
Rising == {f \in Levels : \A i \in 1..(MaxScenarioWeeks - 1) : f[i] < f[i + 1]}
Flat == {f \in Levels : \A i \in 1..(MaxScenarioWeeks - 1) : f[i] = f[i + 1]}
Falling == {f \in Levels : \A i \in 1..(MaxScenarioWeeks - 1) : f[i] > f[i + 1]}

InitScenario ==
    /\ pc = "page_fetching"
    /\ week = MaxScenarioWeeks
    /\ newest_first = FALSE
    /\ \E a \in Rising, b \in Flat, c \in Falling :
            raw = ScenarioRows(a, b, c, MaxScenarioWeeks)
    /\ today = [day |-> ReportDay(MaxScenarioWeeks) + 1, hour |-> 12]
    /\ all_data = <<>>
    /\ divergence_top = <<>>
    /\ flow_top = <<>>
    /\ reversal_top = <<>>
    /\ all_cot_data = <<>>
    /\ snapshot_df = None
    /\ history_df = None
    /\ raised = "none"
    /\ NoIndex
    /\ NoPair
    /\ NoPrice

SpecScenario == InitScenario /\ [][NextScan]_vars

----------------------------------------------------------------------------
(* Properties of the scans *)

DivergenceDone == pc \in {"divergence_done", "flow_done", "reversal_done"}
FlowDone == pc \in {"flow_done", "reversal_done"}
ReversalDone == pc = "reversal_done"

\* the number of records the fetched frame has for a contract
Records(code) == Cardinality({m \in 1..Len(raw) : raw[m].Code = code})

\* the scanned assets with at least lookback records
EligibleAssets ==
    {ASSET_MAP[code] : code \in {c \in DOMAIN ASSET_MAP : Records(c) >= LOOKBACK_WEEKS}}

\* a result has one row for each asset of a set and no other row
ListsOnce(rows, assets) ==
    /\ Len(rows) = Cardinality(assets)
    /\ {rows[i].Asset : i \in 1..Len(rows)} = assets

\* C14: the divergence, flow and reversal scans raise nothing and their
\* results have exactly one row for every asset with at least lookback
\* records, and no row for an asset with fewer.
C14_ScansSkipShortSeries ==
    /\ raised = "none"
    /\ DivergenceDone => ListsOnce(divergence_top, EligibleAssets)
    /\ FlowDone => ListsOnce(flow_top, EligibleAssets)
    /\ ReversalDone => ListsOnce(reversal_top, EligibleAssets)

\* gold has one record and is left out, silver has enough and is listed
C14_Witness ==
    /\ ReversalDone
    /\ Records(GoldCode) = 1
    /\ Records(SilverCode) >= LOOKBACK_WEEKS
    /\ Len(divergence_top) = 1 /\ divergence_top[1].Asset = "Silver"
    /\ Len(flow_top) = 1 /\ flow_top[1].Asset = "Silver"
    /\ Len(reversal_top) = 1 /\ reversal_top[1].Asset = "Silver"

\* the speculative nets of a contract's records, in the fetched order
SpecNets(code) ==
    LET rows == SelectSeq(raw, LAMBDA r : r.Code = code)
    IN  [i \in 1..Len(rows) |-> rows[i].NonComm_Long - rows[i].NonComm_Short]

\* the last lookback week-over-week changes of a contract are all equal, so
\* that their standard deviation is 0
ZeroDeviation(code) ==
    LET nets == SpecNets(code)
        n == Len(nets)
    IN  /\ n >= LOOKBACK_WEEKS + 1
        /\ \A i \in (n - LOOKBACK_WEEKS + 1)..n :
               nets[i] - nets[i - 1] = nets[n] - nets[n - 1]

\* C15: in the flow scan the z-score of an asset whose week-over-week
\* changes of the lookback window have standard deviation 0 is exactly 0,
\* not NaN and not infinite, and nothing is raised.
C15_ZeroDeviationZeroScore ==
    FlowDone =>
        /\ raised = "none"
        /\ \A i \in 1..Len(flow_top) :
               \A code \in DOMAIN ASSET_MAP :
                   (ASSET_MAP[code] = flow_top[i].Asset /\ ZeroDeviation(code)) =>
                       flow_top[i].ZScore = ZZero

\* gold changes by the same non-zero amount twice and has the z-score 0;
\* silver's changes differ and its z-score is not 0
C15_Witness ==
    /\ FlowDone
    /\ Len(flow_top) = 2
    /\ ZeroDeviation(GoldCode)
    /\ ~ZeroDeviation(SilverCode)
    /\ \E i, j \in 1..2 :
           /\ flow_top[i].Asset = "Gold" /\ flow_top[i].ZScore = ZZero
           /\ flow_top[i].Change = Num(1)
           /\ flow_top[j].Asset = "Silver" /\ flow_top[j].ZScore.sgn # 0

\* the date of the latest record of an asset in the fetched frame
LatestRecordDate(asset) ==
    LET dates == {raw[m].Date : m \in {j \in 1..Len(raw) :
                      raw[j].Code \in DOMAIN ASSET_MAP /\ ASSET_MAP[raw[j].Code] = asset}}
    IN  CHOOSE d \in dates : \A e \in dates : e <= d

\* every row of a result is flagged exactly when its asset's latest record
\* is more than the threshold of days before today
FlaggedWhenStale(rows) ==
    \A i \in 1..Len(rows) :
        rows[i].Flag <=>
            today.day - LatestRecordDate(rows[i].Asset) > DATA_FRESHNESS_THRESHOLD_DAYS

DescendingAbs(rows, abs_keys) ==
    \A i, j \in 1..Len(rows) :
        (i < j /\ ~IsNaN(abs_keys[i]) /\ ~IsNaN(abs_keys[j])) =>
            ~FLess(abs_keys[i], abs_keys[j])

\* rows of equal defined absolute keys are in ascending order of the asset
TiesByAsset(rows, abs_keys) ==
    \A i, j \in 1..Len(rows) :
        (i < j /\ ~IsNaN(abs_keys[i]) /\ abs_keys[i] = abs_keys[j]) =>
            ScannerNameRank(rows[i].Asset) < ScannerNameRank(rows[j].Asset)

ScoreKeys(rows) == [i \in 1..Len(rows) |-> FAbs(rows[i].Score)]
ZScoreKeys(rows) == [i \in 1..Len(rows) |-> rows[i].ZScore.sq]

\* the part of C17 the scans keep: descending absolute score
ScansDescending ==
    /\ DivergenceDone => DescendingAbs(divergence_top, ScoreKeys(divergence_top))
    /\ FlowDone => DescendingAbs(flow_top, ZScoreKeys(flow_top))
    /\ ReversalDone => DescendingAbs(reversal_top, ScoreKeys(reversal_top))

\* C17: the rows of a scan result are in descending order of the absolute
\* value of the score, and two assets of equal absolute score are in
\* ascending order of the asset identifier.
C17_RankedWithTieBreak ==
    /\ ScansDescending
    /\ DivergenceDone => TiesByAsset(divergence_top, ScoreKeys(divergence_top))
    /\ FlowDone => TiesByAsset(flow_top, ZScoreKeys(flow_top))
    /\ ReversalDone => TiesByAsset(reversal_top, ScoreKeys(reversal_top))

\* the row of an asset in a result that has one
RowOf(rows, asset) == rows[CHOOSE i \in 1..Len(rows) : rows[i].Asset = asset]

\* the scenario's scores as the scan gives them
ScenarioScores ==
    /\ Len(divergence_top) = 3
    /\ RowOf(divergence_top, "CrudeOil (WTI)").Score = Num(100)
    /\ RowOf(divergence_top, "Silver").Score = Num(0 - 100)

----------------------------------------------------------------------------
(* Specification of both pages: a run of the pair page or a run of the     *)
(* scanner page.                                                           *)

InitScores == InitCot \/ InitScan

NextScores ==
    \/ cot_all_report
    \/ cot_all_extra_row
    \/ main_get_prepared_cot_data
    \/ main_snapshot
    \/ main_history
    \/ page_get_prepared_cot_data
    \/ page_scan_divergence
    \/ page_scan_flow
    \/ page_scan_reversal

SpecScores == InitScores /\ [][NextScores]_vars

\* a float is NaN or a number between lo and hi
Within(x, lo, hi) ==
    \/ IsNaN(x)
    \/ IsNum(x) /\ ~FLess(x, Num(lo)) /\ ~FLess(Num(hi), x)

\* C19: every defined divergence score, reversal score and pair score lies
\* in [-100, 100], and every defined index shown beside it lies in
\* [0, 100].
C19_ScoreRanges ==
    /\ \A i \in 1..Len(divergence_top) :
           /\ Within(divergence_top[i].Score, 0 - 100, 100)
           /\ Within(divergence_top[i].NonCommIdx, 0, 100)
           /\ Within(divergence_top[i].CommIdx, 0, 100)
    /\ \A i \in 1..Len(reversal_top) :
           /\ Within(reversal_top[i].Score, 0 - 100, 100)
           /\ Within(reversal_top[i].NonCommIdx, 0, 100)
           /\ Within(reversal_top[i].RetailIdx, 0, 100)
    /\ \A i \in 1..Len(snapshot_df.rows) :
           /\ Within(snapshot_df.rows[i].PairScore, 0 - 100, 100)
           /\ Within(snapshot_df.rows[i].SpecIdx, 0, 100)
           /\ Within(snapshot_df.rows[i].CommIdx, 0, 100)
    /\ \A i \in 1..Len(history_df.rows) :
           Within(history_df.rows[i].Score, 0 - 100, 100)

\* the scanner page with a divergence score at one end of the range and a
\* reversal score at the other
C19_Witness ==
    /\ ReversalDone
    /\ \E i \in 1..Len(divergence_top) :
           /\ divergence_top[i].Score = Num(0 - 100)
           /\ divergence_top[i].NonCommIdx = Num(0)
           /\ divergence_top[i].CommIdx = Num(100)
    /\ \E i \in 1..Len(reversal_top) :
           /\ reversal_top[i].Score = Num(100)
           /\ reversal_top[i].RetailIdx = Num(0)

----------------------------------------------------------------------------
(* Properties of the flow z-score *)

\* a z-score is a number: not NaN and not infinite
ZDefined(z) == IsNum(z.sq)

\* the code of a scanned asset
CodeOf(asset) == CHOOSE code \in DOMAIN ASSET_MAP : ASSET_MAP[code] = asset

\* the part of C21 that holds: an asset with more than lookback records,
\* hence at least lookback week-over-week changes, has a defined z-score
FlowDefinedWithEnoughChanges ==
    FlowDone =>
        \A i \in 1..Len(flow_top) :
            Records(CodeOf(flow_top[i].Asset)) >= LOOKBACK_WEEKS + 1 =>
                ZDefined(flow_top[i].ZScore)

\* C21: every asset with at least lookback records, one with exactly
\* lookback records included, has a defined numeric z-score in the result
\* of the flow scan, never NaN.
C21_FlowScoreDefined ==
    FlowDone =>
        /\ ListsOnce(flow_top, EligibleAssets)
        /\ \A i \in 1..Len(flow_top) : ZDefined(flow_top[i].ZScore)

----------------------------------------------------------------------------
(* Price-synchronised table, pages/FXchart.py *)

\* the Close of a date in the daily prices, NaN for a date they lack
CloseAt(price, date) ==
    IF \E j \in 1..Len(price) : price[j].Date = date
    THEN price[CHOOSE j \in 1..Len(price) : price[j].Date = date].Close
    ELSE NaN

\* quote_cot['NonComm_Net'] assigned to a column of the frame indexed by
\* the base dates: aligned on the date, NaN for a base date the quote lacks
AlignedNet(base_cot, quote_cot) ==
    [i \in 1..Len(base_cot) |->
        IF \E j \in 1..Len(quote_cot) : quote_cot[j].Date = base_cot[i].Date
        THEN Num(quote_cot[CHOOSE j \in 1..Len(quote_cot) :
                               quote_cot[j].Date = base_cot[i].Date].NonComm_Net)
        ELSE NaN]

\* price is what get_daily_price_data returned
create_cot_price_history_table(base_asset, quote_asset, price, data) ==
    LET base_cot == drop_duplicates(RowsOf(data, base_asset))
        quote_cot == drop_duplicates(RowsOf(data, quote_asset))
    IN  IF Len(base_cot) < LOOKBACK_WEEKS \/ Len(quote_cot) < LOOKBACK_WEEKS THEN None
        ELSE IF price = <<>> THEN None
        ELSE LET base_net == Column(base_cot, "NonComm_Net")
                 quote_net == AlignedNet(base_cot, quote_cot)
                 base_idx == get_cot_index(base_net, LOOKBACK_WEEKS)
                 quote_idx == get_cot_index(quote_net, LOOKBACK_WEEKS)
                 combined == [i \in 1..Len(base_cot) |->
                                 [Date |-> base_cot[i].Date,
                                  Close |-> CloseAt(price, base_cot[i].Date),
                                  Score |-> FSub(base_idx[i], quote_idx[i]),
                                  BaseNet |-> base_net[i],
                                  QuoteNet |-> quote_net[i]]]
                 \* dropna()
                 kept == SelectSeq(combined, LAMBDA r :
                             /\ ~IsNaN(r.Close) /\ ~IsNaN(r.Score)
                             /\ ~IsNaN(r.BaseNet) /\ ~IsNaN(r.QuoteNet))
             IN  Table(SortDatesDescending(kept))

----------------------------------------------------------------------------
(* Specification of the pair page with the price table: the fetched frame  *)
(* has MaxTableWeeks weekly reports, each with a row or none for each of   *)
(* the two markets, of three possible positions; main prepares it, runs    *)
(* the snapshot and the history and builds the price table.                *)

TableChoices == {<<>>} \cup {<<p>> : p \in FeedPositions \cup {Position(4, 1, 1, 4)}}

\* the closes of the report dates 1..w
DailyCloses(w) == [i \in 1..w |-> [Date |-> i, Close |-> Num(100 + i)]]

\* what the price download may return: a close for every report date, for
\* every date but the latest, or nothing
DailyPrices ==
    {DailyCloses(MaxTableWeeks), DailyCloses(MaxTableWeeks - 1), <<>>}

InitTable ==
    /\ pc = "fetching"
    /\ ccy1 = "JPY"
    /\ ccy2 = "USD"
    /\ pair_info = get_pair_info("JPY", "USD").ret
    /\ week = MaxTableWeeks
    /\ newest_first = FALSE
    /\ \E b \in [1..MaxTableWeeks -> TableChoices],
          q \in [1..MaxTableWeeks -> TableChoices] :
            raw = WeeklyRows(b, q, MaxTableWeeks)
    /\ all_cot_data = <<>>
    /\ snapshot_df = None
    /\ history_df = None
    /\ raised = "none"
    /\ NoIndex
    /\ NoScan
    /\ NoPrice

\* price_history_df = create_cot_price_history_table(...), which downloads
\* the daily prices itself
main_price_table ==
    /\ pc = "history_done"
    /\ \E price \in DailyPrices :
            /\ price_history' = price
            /\ price_history_df' = create_cot_price_history_table(
                   base_asset_cot, quote_asset_cot, price, all_cot_data)
    /\ pc' = "table_done"
    /\ UNCHANGED <<indexVars, pairVars, cotVars, scanVars, raised>>

NextTable ==
    \/ main_get_prepared_cot_data
    \/ main_snapshot
    \/ main_history
    \/ main_price_table

SpecTable == InitTable /\ [][NextTable]_vars

----------------------------------------------------------------------------
(* Properties of the price table *)

TableDone == pc = "table_done"

\* on every date that both tables have, the scores are equal
SameScoreOnSharedDates ==
    \A i \in 1..Len(price_history_df.rows), j \in 1..Len(history_df.rows) :
        price_history_df.rows[i].Date = history_df.rows[j].Date =>
            price_history_df.rows[i].Score = history_df.rows[j].Score

\* the part of C22 that holds: the scores agree when the quote series has
\* no date that the base series lacks
SameScoreWithoutExtraQuoteDates ==
    (TableDone /\ ReportDates(QuoteMarket) \subseteq ReportDates(BaseMarket)) =>
        SameScoreOnSharedDates

\* C22: on every date that is both in the price-synchronised table and in
\* the score history, the pair score is the same in both, also when the
\* quote series has dates the base series lacks or the other way round.
C22_TableScoreIsHistoryScore ==
    TableDone => SameScoreOnSharedDates

----------------------------------------------------------------------------
(* Specification of the pair page on frames whose series may end on        *)
(* different dates and may have a second record of the latest date: the    *)
(* fetched frame has MaxSnapshotWeeks weekly reports, each with a row or   *)
(* none for each of the two markets, and up to MaxExtra rows of another    *)
(* exchange for the latest report.                                         *)

InitSnapshot ==
    /\ pc = "fetching"
    /\ ccy1 = "JPY"
    /\ ccy2 = "USD"
    /\ pair_info = get_pair_info("JPY", "USD").ret
    /\ week = MaxSnapshotWeeks
    /\ newest_first = FALSE
    /\ \E b \in [1..MaxSnapshotWeeks -> WeekChoices],
          q \in [1..MaxSnapshotWeeks -> WeekChoices] :
            raw = WeeklyRows(b, q, MaxSnapshotWeeks)
    /\ all_cot_data = <<>>
    /\ snapshot_df = None
    /\ history_df = None
    /\ raised = "none"
    /\ NoIndex
    /\ NoScan
    /\ NoPrice

NextSnapshot ==
    \/ cot_all_extra_row
    \/ main_get_prepared_cot_data
    \/ main_snapshot
    \/ main_history

SpecSnapshot == InitSnapshot /\ [][NextSnapshot]_vars

----------------------------------------------------------------------------
(* Properties of the snapshot against the history *)

HistoryNonEmpty == HistoryDone /\ history_df.rows # <<>>

\* the last lookback records of an asset in the prepared frame have
\* distinct dates
DistinctLatestDates(asset) ==
    LET rows == SnapshotSeries(asset)
        n == Len(rows)
    IN  \A i \in 1..(n - 1) :
            i > n - LOOKBACK_WEEKS => rows[i].Date < rows[i + 1].Date

DifferentEndDatesDiffer ==
    /\ HistoryNonEmpty
    /\ LatestDate(BaseMarket) # LatestDate(QuoteMarket)
    /\ StrictlyIncreasingDates(SnapshotSeries("USDollar"))
    /\ StrictlyIncreasingDates(SnapshotSeries("JapaneseYen"))
    /\ snapshot_df.rows[1].PairScore # history_df.rows[1].Score

====
